---- MODULE Spec2Model ----
(***************************************************************************)
(* A model of nltk/corpus/reader/childes.py: the word extraction of        *)
(* CHILDESCorpusReader._get_words over an ElementTree document, the mean   *)
(* length of utterance of CHILDESCorpusReader._getMLU, and _convert_age.   *)
(*                                                                         *)
(* Python strings are sequences of one-character strings, so that          *)
(* concatenation, strip(), split("/") and int() are computed.  Python      *)
(* values are records tagged by the field t: None, str, tuple, Element.    *)
(***************************************************************************)
EXTENDS Integers, Sequences, FiniteSets, TLC

VARIABLES
    pc,         \* position of the running call
    xmldoc,     \* ElementTree.parse(fileid).getroot()
    args,       \* the arguments of _get_words
    caller,     \* "words" (a call of _get_words) or "MLU" (through _getMLU)
    idx,        \* position of the loop over xmldoc.findall('.//u')
    results,    \* _get_words: results
    trace,      \* the word resolutions of the utterance handled last
    exc,        \* the exception the call propagated, "" when none
    sents,      \* _getMLU: sents
    mluIdx,     \* _getMLU: position of the loop over sents
    lastSent,   \* _getMLU: lastSent
    mluResults, \* _getMLU: results
    mlu,        \* _getMLU: the returned value
    age_year,   \* _convert_age: the argument
    age_month   \* _convert_age: the returned value

vars == <<pc, xmldoc, args, caller, idx, results, trace, exc, sents, mluIdx,
          lastSent, mluResults, mlu, age_year, age_month>>

----------------------------------------------------------------------------
(* Python values *)

PyNone == [t |-> "None"]
PyStr(s) == [t |-> "str", s |-> s]
PyTuple(a, b) == [t |-> "tuple", a |-> a, b |-> b]
IsNone(v) == v.t = "None"
IsStr(v) == v.t = "str"
IsTuple(v) == v.t = "tuple"

\* bool(v): None and '' are false, a tuple of two is true, an Element is true
\* iff it has children (ElementTree defines __len__, not __nonzero__).
Truthy(v) ==
    CASE v.t = "None" -> FALSE
      [] v.t = "str" -> Len(v.s) > 0
      [] v.t = "tuple" -> TRUE
      [] v.t = "Element" -> Len(v.kids) > 0

\* x + y for the operands the code adds: str + str concatenates, anything
\* with None raises TypeError.
CanAdd(x, y) == IsStr(x) /\ IsStr(y)
PyAdd(x, y) == PyStr(x.s \o y.s)

Whitespace == {" ", "\t", "\n", "\r"}

RECURSIVE LStrip(_)
LStrip(s) == IF s # <<>> /\ Head(s) \in Whitespace THEN LStrip(Tail(s)) ELSE s

RECURSIVE RStrip(_)
RStrip(s) ==
    IF s # <<>> /\ s[Len(s)] \in Whitespace
    THEN RStrip(SubSeq(s, 1, Len(s) - 1)) ELSE s

\* str.strip()
Strip(s) == RStrip(LStrip(s))

\* str.split(sep) for a one-character separator
RECURSIVE SplitAcc(_, _, _)
SplitAcc(s, sep, cur) ==
    IF s = <<>> THEN <<cur>>
    ELSE IF Head(s) = sep THEN <<cur>> \o SplitAcc(Tail(s), sep, <<>>)
    ELSE SplitAcc(Tail(s), sep, Append(cur, Head(s)))

Split(s, sep) == SplitAcc(s, sep, <<>>)

----------------------------------------------------------------------------
(* ElementTree *)

Element(tag, text, attrib, kids) ==
    [t |-> "Element", tag |-> tag, text |-> text, attrib |-> attrib, kids |-> kids]

\* Element.get(key): the attribute, None when absent
Get(e, key) == IF key \in DOMAIN e.attrib THEN e.attrib[key] ELSE PyNone

RECURSIVE IterKids(_, _)
RECURSIVE Iter(_)
\* Element.getiterator(): the element and its descendants in document order
Iter(e) == <<e>> \o IterKids(e.kids, 1)
IterKids(kids, i) ==
    IF i > Len(kids) THEN <<>> ELSE Iter(kids[i]) \o IterKids(kids, i + 1)

RECURSIVE SelectTag(_, _)
SelectTag(nodes, tag) ==
    IF nodes = <<>> THEN <<>>
    ELSE (IF Head(nodes).tag = tag THEN <<Head(nodes)>> ELSE <<>>)
         \o SelectTag(Tail(nodes), tag)

\* the step './/tag': the proper descendants with that tag, in document order
Descendants(e, tag) == SelectTag(Tail(Iter(e)), tag)

RECURSIVE ChildStep(_, _)
\* the step '/tag' on a node set: the children with that tag of each node
ChildStep(nodes, tag) ==
    IF nodes = <<>> THEN <<>>
    ELSE SelectTag(Head(nodes).kids, tag) \o ChildStep(Tail(nodes), tag)

RECURSIVE ChildSteps(_, _)
ChildSteps(nodes, tags) ==
    IF tags = <<>> THEN nodes
    ELSE ChildSteps(ChildStep(nodes, Head(tags)), Tail(tags))

\* Element.findall('.//t1/t2/...') and Element.find of the same path
FindAll(e, tags) == ChildSteps(Descendants(e, Head(tags)), Tail(tags))
First(nodes) == IF nodes = <<>> THEN PyNone ELSE nodes[1]
Find(e, tags) == First(FindAll(e, tags))

----------------------------------------------------------------------------
(* CHILDESCorpusReader._get_words: the body of the loop over the words.    *)
(* A value that a block of the body reads several times is a parameter of  *)
(* the operator that models the block.                                     *)

Slash == PyStr(<<"/">>)
Dash == PyStr(<<"-">>)
Bar == PyStr(<<"|">>)
SlashNone == PyStr(<<"/", "N", "o", "n", "e">>)
EmptyStr == PyStr(<<>>)

\* lines 185-188: the word node the rest of the body reads.  Both lookups
\* start at xmlsent, not at xmlword.
SelectWord(xmlsent, xmlword, replace) ==
    IF replace /\ Truthy(Find(xmlsent, <<"w", "replacement">>))
    THEN Find(xmlsent, <<"w", "replacement", "w">>)
    ELSE IF replace /\ Truthy(Find(xmlsent, <<"w", "wk">>))
    THEN Find(xmlsent, <<"w", "wk">>)
    ELSE xmlword

\* lines 190-193
TextOrEmpty(text) == IF Truthy(text) THEN text ELSE EmptyStr
\* lines 195-196
StripIf(strip_space, word) == IF strip_space THEN PyStr(Strip(word.s)) ELSE word
\* lines 190-196
GetText(xmlword, strip_space) == StripIf(strip_space, TextOrEmpty(xmlword.text))

\* lines 199-203: a stem element gives its text (None when it has none), a
\* missing one raises AttributeError, which is passed over
StemOf(xmlstem, word) == IF IsNone(xmlstem) THEN word ELSE xmlstem.text
StemText(xmlword, word) == StemOf(Find(xmlword, <<"stem">>), word)

\* lines 205-209: every exception is passed over
InflectionOf(xmlinfl, word) ==
    IF ~IsNone(xmlinfl) /\ CanAdd(Dash, xmlinfl.text) /\ IsStr(word)
    THEN PyAdd(word, PyAdd(Dash, xmlinfl.text))
    ELSE word
AddInflection(xmlword, word) ==
    InflectionOf(Find(xmlword, <<"mor", "mw", "mk">>), word)

\* lines 211-215
SuffixOf(xmlsuffix) == IF IsNone(xmlsuffix) THEN EmptyStr ELSE xmlsuffix.text
SuffixStem(xmlword) == SuffixOf(Find(xmlword, <<"mor", "mor-post", "mw", "stem">>))

\* lines 198-215
StemStep(xmlword, st) ==
    [word |-> AddInflection(xmlword, StemText(xmlword, st.word)),
     suffixStem |-> SuffixStem(xmlword),
     exc |-> ""]

\* line 221: the guard of the suffix's tag
TagsSuffix(xmlpos, suffixStem) == Len(xmlpos) # 1 /\ Truthy(suffixStem)

\* lines 223-226: the handler of (AttributeError, IndexError)
PosHandler(st) ==
    IF ~IsStr(st.word) THEN [st EXCEPT !.exc = "TypeError"]
    ELSE [word |-> PyAdd(st.word, SlashNone),
          suffixStem |-> IF Truthy(st.suffixStem)
                         THEN PyAdd(st.suffixStem, SlashNone)
                         ELSE st.suffixStem,
          exc |-> ""]

\* lines 221-222, word being the value line 220 gave
PosSuffix(xmlpos, st, word) ==
    IF ~TagsSuffix(xmlpos, st.suffixStem)
    THEN [st EXCEPT !.word = word]
    ELSE IF ~CanAdd(Slash, xmlpos[2].text)
    THEN [st EXCEPT !.word = word, !.exc = "TypeError"]
    ELSE [word |-> word,
          suffixStem |-> PyAdd(st.suffixStem, PyAdd(Slash, xmlpos[2].text)),
          exc |-> ""]

\* lines 218-226: xmlpos[0] of an empty list raises IndexError, which is
\* handled; "/" + None and None + str raise TypeError, which is not
PosTag(xmlpos, st) ==
    IF xmlpos = <<>> THEN PosHandler(st)
    ELSE IF ~CanAdd(Slash, xmlpos[1].text) \/ ~IsStr(st.word)
    THEN [st EXCEPT !.exc = "TypeError"]
    ELSE PosSuffix(xmlpos, st, PyAdd(st.word, PyAdd(Slash, xmlpos[1].text)))

\* lines 217-226
PosStep(xmlword, st) == PosTag(FindAll(xmlword, <<"c">>), st)

\* index + "|" + head + "|" + relation of a gra element; TypeError when an
\* attribute is missing
HasTriple(gra) ==
    /\ ~IsNone(Get(gra, "index"))
    /\ ~IsNone(Get(gra, "head"))
    /\ ~IsNone(Get(gra, "relation"))
Triple(gra) ==
    PyAdd(PyAdd(PyAdd(PyAdd(Get(gra, "index"), Bar), Get(gra, "head")), Bar),
          Get(gra, "relation"))

\* lines 231-236, one descriptor: both branches of the test on 'type' build
\* the pair from the current value of word
WithRelation(word, gra) == PyTuple(word, Triple(gra))

RECURSIVE MainRelations(_, _)
\* lines 230-236
MainRelations(gras, st) ==
    IF gras = <<>> \/ st.exc # "" THEN st
    ELSE IF ~HasTriple(Head(gras)) THEN [st EXCEPT !.exc = "TypeError"]
    ELSE MainRelations(Tail(gras),
                       [st EXCEPT !.word = WithRelation(st.word, Head(gras))])

\* lines 237-242: every exception is passed over
PostRelationOf(xmlpost_rel, st) ==
    IF IsNone(xmlpost_rel) \/ ~HasTriple(xmlpost_rel) THEN st
    ELSE [st EXCEPT !.suffixStem = PyTuple(st.suffixStem, Triple(xmlpost_rel))]
PostRelation(xmlword, st) ==
    IF st.exc # "" THEN st
    ELSE PostRelationOf(Find(xmlword, <<"mor", "mor-post", "gra">>), st)

\* lines 229-242
RelationStep(xmlword, st) ==
    PostRelation(xmlword, MainRelations(FindAll(xmlword, <<"mor", "gra">>), st))

\* Emit with the test 'suffixStem is not None' in the place of 'suffixStem'
EmitPending(st) ==
    <<st.word>> \o (IF ~IsNone(st.suffixStem) THEN <<st.suffixStem>> ELSE <<>>)

\* lines 243-245
Emit(st) ==
    <<st.word>> \o (IF Truthy(st.suffixStem) THEN <<st.suffixStem>> ELSE <<>>)

\* The record of one pass of the loop body for the word node orig: src is
\* xmlword after the replacement lookup, surface the text after strip,
\* stemmed the values after the stem block, tagged the values after the pos
\* block, word and suffixStem the final values, out the tokens appended to
\* sents, exc the exception the pass raised.
Pass(orig, src, surface, s1, s2, s3) ==
    [orig |-> orig, src |-> src, surface |-> surface,
     stemmed |-> s1, tagged |-> s2,
     word |-> s3.word, suffixStem |-> s3.suffixStem,
     out |-> IF s3.exc = "" THEN Emit(s3) ELSE <<>>,
     exc |-> s3.exc]

\* line 183 and the text
Start(surface) == [word |-> surface, suffixStem |-> PyNone, exc |-> ""]
Failed(type) == [word |-> PyNone, suffixStem |-> PyNone, exc |-> type]

\* lines 229-245
AfterPos(orig, src, surface, s1, s2, a) ==
    Pass(orig, src, surface, s1, s2,
         IF s2.exc = "" /\ a.relation THEN RelationStep(src, s2) ELSE s2)

\* lines 217-245
AfterStem(orig, src, surface, s1, a) ==
    AfterPos(orig, src, surface, s1, IF a.pos THEN PosStep(src, s1) ELSE s1, a)

\* lines 198-245
AfterText(orig, src, surface, a) ==
    AfterStem(orig, src, surface,
              IF a.relation \/ a.stem THEN StemStep(src, Start(surface))
              ELSE Start(surface), a)

\* lines 190-245: None.text raises AttributeError
AfterSelect(orig, src, a) ==
    IF IsNone(src)
    THEN Pass(orig, src, PyNone, Failed(""), Failed(""), Failed("AttributeError"))
    ELSE AfterText(orig, src, GetText(src, a.strip_space), a)

\* lines 183-245: one pass of the loop body
ResolveWord(xmlsent, orig, a) ==
    AfterSelect(orig, SelectWord(xmlsent, orig, a.replace), a)

RECURSIVE ResolveWords(_, _, _)
\* the pass r, and the later passes unless r raised
ThenRest(r, xmlsent, xmlwords, a) ==
    IF r.exc # "" THEN <<r>> ELSE <<r>> \o ResolveWords(xmlsent, xmlwords, a)

\* lines 182-245: the passes over xmlsent.findall('.//w'), up to the first
\* one that raises
ResolveWords(xmlsent, xmlwords, a) ==
    IF xmlwords = <<>> THEN <<>>
    ELSE ThenRest(ResolveWord(xmlsent, Head(xmlwords), a), xmlsent, Tail(xmlwords), a)

RECURSIVE Outs(_)
\* sents after the passes
Outs(rs) == IF rs = <<>> THEN <<>> ELSE Head(rs).out \o Outs(Tail(rs))

Raised(rs) == rs # <<>> /\ rs[Len(rs)].exc # ""

ALL == PyStr(<<"A", "L", "L">>)
CHI == PyStr(<<"C", "H", "I">>)
MOT == PyStr(<<"M", "O", "T">>)
FAT == PyStr(<<"F", "A", "T">>)

\* line 181
Selected(xmlsent, speaker) == speaker = ALL \/ Get(xmlsent, "who") = speaker

\* Collect with the test 'sent' in the place of 'sent or relation'
CollectBySent(res, sts, a) ==
    IF a.sent THEN Append(res, sts) ELSE res \o sts

\* lines 246-249
Collect(res, sts, a) ==
    IF a.sent \/ a.relation THEN Append(res, sts) ELSE res \o sts

----------------------------------------------------------------------------
(* The documents: CHAT transcripts as ElementTree builds them *)

NoAttrib == <<>>
Leaf(tag, text) == Element(tag, text, NoAttrib, <<>>)
Node(tag, kids) == Element(tag, PyNone, NoAttrib, kids)

\* <c>: a part-of-speech category; <pos> holds the categories of one <mw>
Cat(text) == Leaf("c", text)
PosOf(cats) == IF cats = <<>> THEN <<>> ELSE <<Node("pos", cats)>>

\* <gra type=... index=... head=... relation=.../>, the k-th of a word
GraTypes == <<"gra", "trn", "grt">>
GraRels == <<PyStr(<<"S", "U", "B", "J">>), PyStr(<<"O", "B", "J">>), PyStr(<<"M", "O", "D">>)>>
Gra(k) ==
    Element("gra", PyNone,
            [type |-> GraTypes[((k - 1) % 3) + 1], index |-> PyStr(<<"1">>),
             head |-> PyStr(<<"2">>), relation |-> GraRels[((k - 1) % 3) + 1]],
            <<>>)
GraOfPost ==
    Element("gra", PyNone,
            [type |-> "gra", index |-> PyStr(<<"3">>), head |-> PyStr(<<"1">>),
             relation |-> PyStr(<<"A", "U", "X">>)],
            <<>>)
\* a descriptor that lacks its attributes
GraBare == Element("gra", PyNone, [type |-> "gra"], <<>>)

\* <mw>: categories, stem, inflectional marker, each a sequence of 0 or 1
Mw(cats, stem, mk) == Node("mw", PosOf(cats) \o stem \o mk)
MorPost(cats, stem, gras) == Node("mor-post", <<Mw(cats, stem, <<>>)>> \o gras)
Mor(cats, stem, mk, gras, post) ==
    Element("mor", PyNone, [type |-> "mor"], <<Mw(cats, stem, mk)>> \o gras \o post)

W(text, kids) == Element("w", text, NoAttrib, kids)
Replacement(w) == Node("replacement", <<w>>)
\* <wk type="cmp"/>, the marker inside a compound, and one that has a child
WkEmpty == Element("wk", PyNone, [type |-> "cmp"], <<>>)
WkFull == Element("wk", PyStr(<<"k">>), [type |-> "cmp"], <<Leaf("x", PyNone)>>)

U(who, words) == Element("u", PyNone, [who |-> who], words)
Participant(id) == Element("participant", PyNone, [id |-> id], <<>>)
Chat(utts) ==
    Element("CHAT", PyNone, NoAttrib,
            <<Node("Participants", <<Participant(CHI), Participant(MOT)>>)>> \o utts)

\* the bounds of the documents
MaxGra == 2
MaxUtts == 3

GraSeq(n) == [k \in 1..n |-> Gra(k)]

TextSpaced == PyStr(<<" ", "a", " ">>)
Texts == {PyNone, TextSpaced}
MainCats == {<<>>, <<Cat(PyStr(<<"n">>))>>, <<Cat(PyNone)>>}
Stems == {<<>>, <<Leaf("stem", PyStr(<<"s">>))>>, <<Leaf("stem", PyNone)>>}
Mks == {<<>>, <<Leaf("mk", PyStr(<<"P", "L">>))>>}
GraSeqs == {GraSeq(n) : n \in 0..MaxGra}
PostCats == {<<>>, <<Cat(PyStr(<<"v">>))>>}
PostStems == {<<>>, <<Leaf("stem", PyStr(<<"t">>))>>}
PostGras == {<<>>, <<GraOfPost>>}
Posts ==
    {<<>>} \cup {<<MorPost(c, st, g)>> : c \in PostCats, st \in PostStems, g \in PostGras}
Mors ==
    {<<>>} \cup {<<Mor(c, st, mk, g, p)>> :
                    c \in MainCats, st \in Stems, mk \in Mks, g \in GraSeqs, p \in Posts}

\* words that carry a morphology and no replacement
MorWords == {W(tx, m) : tx \in Texts, m \in Mors}

\* the words of the utterances of two words
WordPlain == W(PyStr(<<"b", " ">>), <<>>)
WordSuffixed ==
    W(TextSpaced,
      <<Mor(<<Cat(PyStr(<<"p", "r", "o">>))>>, <<Leaf("stem", PyStr(<<"i", "t">>))>>, <<>>,
            <<Gra(1)>>,
            <<MorPost(<<Cat(PyStr(<<"v">>))>>, <<Leaf("stem", PyStr(<<"b", "e">>))>>,
                      <<GraOfPost>>)>>)>>)
WordReplaced == W(PyStr(<<"w", "a", "t">>), <<Replacement(W(PyStr(<<"r">>), <<>>))>>)
WordReplaced2 ==
    W(PyStr(<<"d", "a", "t">>),
      <<Replacement(W(PyStr(<<"q">>),
                      <<Mor(<<Cat(PyStr(<<"n">>))>>, <<Leaf("stem", PyStr(<<"s">>))>>,
                            <<>>, <<>>, <<>>)>>))>>)
WordKeyed == W(PyStr(<<"i">>), <<WkFull>>)
WordBoth == W(PyStr(<<"j">>), <<WkFull, Replacement(W(PyStr(<<"r">>), <<>>))>>)
WordCompound == W(PyStr(<<"i">>), <<WkEmpty>>)
WordBareGra ==
    W(PyStr(<<"g">>), <<Mor(<<Cat(PyStr(<<"n">>))>>, <<>>, <<>>, <<GraBare>>, <<>>)>>)
PairWords ==
    {WordPlain, WordSuffixed, WordReplaced, WordReplaced2, WordBoth, WordCompound}

AllFlags ==
    [speaker : {ALL}, sent : {TRUE}, stem : BOOLEAN, relation : BOOLEAN,
     pos : BOOLEAN, strip_space : BOOLEAN, replace : BOOLEAN]

\* one utterance of one word with a morphology, or of one or two other words
WordDocs ==
    {Chat(<<U(CHI, <<w>>)>>) :
        w \in MorWords \cup PairWords \cup {WordBareGra, WordKeyed}}
    \cup {Chat(<<U(CHI, <<v, w>>)>>) : v \in PairWords, w \in PairWords}

\* several utterances of two speakers
ShapeUtts ==
    {U(who, ws) : who \in {CHI, MOT},
                  ws \in {<<>>, <<WordPlain>>, <<WordSuffixed, WordPlain>>}}
    \cup {Element("u", PyNone, NoAttrib, <<WordPlain>>)}
RECURSIVE SeqsUpTo(_, _)
SeqsUpTo(S, n) ==
    IF n = 0 THEN {<<>>}
    ELSE SeqsUpTo(S, n - 1)
         \cup {Append(q, x) : q \in {r \in SeqsUpTo(S, n - 1) : Len(r) = n - 1}, x \in S}
ShapeDocs == {Chat(us) : us \in SeqsUpTo(ShapeUtts, MaxUtts)}
ShapeFlags ==
    [speaker : {ALL, CHI, FAT}, sent : BOOLEAN, stem : {FALSE},
     relation : BOOLEAN, pos : {FALSE}, strip_space : {TRUE}, replace : {FALSE}]

----------------------------------------------------------------------------
(* _get_words as a state machine: one step per pass of the loop over the   *)
(* utterances                                                              *)

Utterances(doc) == FindAll(doc, <<"u">>)

NoCall ==
    /\ sents = <<>> /\ mluIdx = 0 /\ lastSent = <<>> /\ mluResults = <<>>
    /\ mlu = PyNone /\ age_year = PyNone /\ age_month = PyNone

Init ==
    /\ pc = "get_words"
    /\ caller = "words"
    /\ \/ xmldoc \in WordDocs /\ args \in AllFlags
       \/ xmldoc \in ShapeDocs /\ args \in ShapeFlags
    /\ idx = 1 /\ results = <<>> /\ trace = <<>> /\ exc = ""
    /\ NoCall

\* lines 182-249 for a selected utterance whose passes are rs
Passed(rs) ==
    IF Raised(rs)
    THEN /\ pc' = "raised"
         /\ exc' = rs[Len(rs)].exc
         /\ trace' = rs
         /\ UNCHANGED <<idx, results>>
    ELSE /\ idx' = idx + 1
         /\ results' = Collect(results, Outs(rs), args)
         /\ trace' = rs
         /\ UNCHANGED <<pc, exc>>

\* lines 179-249
Sent(xmlsent) ==
    IF ~Selected(xmlsent, args.speaker)
    THEN /\ idx' = idx + 1
         /\ trace' = <<>>
         /\ UNCHANGED <<pc, results, exc>>
    ELSE Passed(ResolveWords(xmlsent, FindAll(xmlsent, <<"w">>), args))

\* lines 178-249: one pass of the loop over xmldoc.findall('.//u')
GetWordsSent ==
    /\ pc = "get_words"
    /\ idx <= Len(Utterances(xmldoc))
    /\ Sent(Utterances(xmldoc)[idx])
    /\ UNCHANGED <<xmldoc, args, caller, sents, mluIdx, lastSent, mluResults, mlu,
                   age_year, age_month>>

\* line 250, and line 145 when the caller is _getMLU
GetWordsReturn ==
    /\ pc = "get_words"
    /\ idx > Len(Utterances(xmldoc))
    /\ IF caller = "MLU"
       THEN /\ pc' = "mlu_loop"
            /\ sents' = results
            /\ mluIdx' = 1
       ELSE /\ pc' = "done"
            /\ UNCHANGED <<sents, mluIdx>>
    /\ UNCHANGED <<xmldoc, args, caller, idx, results, trace, exc, lastSent,
                   mluResults, mlu, age_year, age_month>>

Next == GetWordsSent \/ GetWordsReturn

Spec == Init /\ [][Next]_vars

----------------------------------------------------------------------------
(* CHILDESCorpusReader._getMLU *)

PyInt(n) == [t |-> "int", v |-> n]
\* the float x / y of two floats of integral value
PyQuotient(x, y) == [t |-> "float", num |-> x, den |-> y]

\* line 150
skip_pos ==
    {<<"c", "o">>, <<"o", "n">>, <<"u", "n", "k">>, <<"v", "v", "v">>,
     <<"N", "o", "n", "e">>}

\* lines 145-146: the arguments of the call of _get_words
MLUArgs ==
    [speaker |-> CHI, sent |-> TRUE, stem |-> TRUE, relation |-> FALSE,
     pos |-> TRUE, strip_space |-> TRUE, replace |-> TRUE]

\* line 153: sent[0].split("/")[1] in skip_pos
SkipTag(token) == Split(token.s, "/")[2] \in skip_pos
\* what line 153 raises: None has no split, a text without "/" has no [1]
SkipRaises(group) ==
    IF Len(group) # 1 THEN ""
    ELSE IF ~IsStr(group[1]) THEN "AttributeError"
    ELSE IF Len(Split(group[1].s, "/")) < 2 THEN "IndexError"
    ELSE ""

\* lines 153-162: whether the loop body appends the group
Retains(group, last) ==
    IF Len(group) = 1 /\ SkipTag(group[1]) THEN FALSE
    ELSE IF group = <<>> THEN FALSE
    ELSE IF group = last THEN FALSE
    ELSE TRUE

\* NextLast with line 163 inside the else branch of line 161
NextLastRetained(group, last) == IF Retains(group, last) THEN group ELSE last

\* line 163
NextLast(group, last) == group

\* nltk.util.flatten of a list of lists of strings
RECURSIVE flatten(_)
flatten(groups) ==
    IF groups = <<>> THEN <<>> ELSE Head(groups) \o flatten(Tail(groups))

\* lines 164-169
Mean(res) ==
    IF Len(res) = 0 THEN PyInt(0)               \* ZeroDivisionError
    ELSE PyQuotient(Len(flatten(res)), Len(res))

\* the words of the transcripts of _getMLU
WordN == W(PyStr(<<"m", " ">>), <<Mor(<<Cat(PyStr(<<"n">>))>>, <<Leaf("stem", PyStr(<<"m">>))>>, <<>>, <<>>, <<>>)>>)
WordV == W(PyStr(<<"r">>), <<Mor(<<Cat(PyStr(<<"v">>))>>, <<Leaf("stem", PyStr(<<"r">>))>>, <<>>, <<>>, <<>>)>>)
WordCo == W(PyStr(<<"h">>), <<Mor(<<Cat(PyStr(<<"c", "o">>))>>, <<Leaf("stem", PyStr(<<"h">>))>>, <<>>, <<>>, <<>>)>>)
WordNoCat == W(PyStr(<<"x">>), <<>>)

MaxMLUUtts == 4

MLUUtts ==
    {U(CHI, ws) : ws \in {<<>>, <<WordN>>, <<WordCo>>, <<WordNoCat>>, <<WordN, WordV>>,
                            <<WordSuffixed>>}}
    \cup {U(MOT, <<WordN>>)}
MLUDocs == {Chat(us) : us \in SeqsUpTo(MLUUtts, MaxMLUUtts)}

InitMLU ==
    /\ pc = "get_words"
    /\ caller = "MLU"
    /\ xmldoc \in MLUDocs
    /\ args = MLUArgs
    /\ idx = 1 /\ results = <<>> /\ trace = <<>> /\ exc = ""
    /\ sents = <<>> /\ mluIdx = 0 /\ lastSent = <<>> /\ mluResults = <<>>
    /\ mlu = PyNone /\ age_year = PyNone /\ age_month = PyNone

\* lines 152-163 for the group sent
MLUBody(sent) ==
    IF SkipRaises(sent) # ""
    THEN /\ pc' = "raised"
         /\ exc' = SkipRaises(sent)
         /\ UNCHANGED <<mluIdx, lastSent, mluResults>>
    ELSE /\ mluResults' = IF Retains(sent, lastSent) THEN Append(mluResults, sent)
                          ELSE mluResults
         /\ lastSent' = NextLast(sent, lastSent)
         /\ mluIdx' = mluIdx + 1
         /\ UNCHANGED <<pc, exc>>

\* lines 151-163: one pass of the loop over sents
MLUSent ==
    /\ pc = "mlu_loop"
    /\ mluIdx <= Len(sents)
    /\ MLUBody(sents[mluIdx])
    /\ UNCHANGED <<xmldoc, args, caller, idx, results, trace, sents, mlu, age_year,
                   age_month>>

\* lines 164-171
MLUReturn ==
    /\ pc = "mlu_loop"
    /\ mluIdx > Len(sents)
    /\ mlu' = Mean(mluResults)
    /\ pc' = "done"
    /\ UNCHANGED <<xmldoc, args, caller, idx, results, trace, exc, sents, mluIdx,
                   lastSent, mluResults, age_year, age_month>>

NextMLU == GetWordsSent \/ GetWordsReturn \/ MLUSent \/ MLUReturn

SpecMLU == InitMLU /\ [][NextMLU]_vars

----------------------------------------------------------------------------
(* _convert_age *)

Digits == <<"0", "1", "2", "3", "4", "5", "6", "7", "8", "9">>
IsDigit(c) == \E d \in 1..10 : Digits[d] = c
DigitValue(c) == (CHOOSE d \in 1..10 : Digits[d] = c) - 1

\* the end of the longest run of at most max digits of s that starts at i
RECURSIVE DigitsEnd(_, _, _)
DigitsEnd(s, i, max) ==
    IF max > 0 /\ i <= Len(s) /\ IsDigit(s[i]) THEN DigitsEnd(s, i + 1, max - 1) ELSE i

\* an optional character c of the pattern at i
Optional(s, i, c) == IF i <= Len(s) /\ s[i] = c THEN i + 1 ELSE i

\* the third group, from the end j of the second
Group3(s, j) ==
    SubSeq(s, Optional(s, j, "M"), DigitsEnd(s, Optional(s, j, "M"), 2) - 1)

\* the second group from i, behind the "Y"
Groups23(s, g1, i) ==
    IF DigitsEnd(s, i, Len(s)) = i THEN PyNone
    ELSE [t |-> "match", g1 |-> g1,
          g2 |-> SubSeq(s, i, DigitsEnd(s, i, Len(s)) - 1),
          g3 |-> Group3(s, DigitsEnd(s, i, Len(s)))]

\* the first group, which ends at j, and the "Y"
Groups(s, j) ==
    IF j = 2 \/ j > Len(s) \/ s[j] # "Y" THEN PyNone
    ELSE Groups23(s, SubSeq(s, 2, j - 1), j + 1)

\* line 254: re.match("P(\d+)Y(\d+)M?(\d?\d?)D?", s); \d+ takes every digit,
\* and what follows the second group is optional, so no shorter run matches
\* where the longest does not
Match(s) ==
    IF s = <<>> \/ s[1] # "P" THEN PyNone ELSE Groups(s, DigitsEnd(s, 2, Len(s)))

\* int() of a string of digits
RECURSIVE IntOf(_)
IntOf(s) ==
    IF s = <<>> THEN 0 ELSE 10 * IntOf(SubSeq(s, 1, Len(s) - 1)) + DigitValue(s[Len(s)])

\* RoundsUp with >= in the place of >
RoundsUpFrom15(days) == days >= 15

\* line 257: the threshold of the days
RoundsUp(days) == days > 15

\* lines 255-262 for the match m; int('') raises ValueError, which is passed over
Months(m) ==
    12 * IntOf(m.g1) + IntOf(m.g2)
    + (IF m.g3 # <<>> /\ RoundsUp(IntOf(m.g3)) THEN 1 ELSE 0)

\* the decimal digits of n, in at least width digits
RECURSIVE Decimal(_, _)
Decimal(n, width) ==
    IF n < 10 /\ width <= 1 THEN <<Digits[n + 1]>>
    ELSE Append(Decimal(n \div 10, width - 1), Digits[(n % 10) + 1])

MaxYears == 10
MaxMonths == 11
MaxDays == 31

\* P<years>Y<months>M, and P<years>Y<months>M<days>D with the days in at
\* least width digits
AgeY(y) == <<"P">> \o Decimal(y, 1) \o <<"Y">>
AgeYM(y, m) == AgeY(y) \o Decimal(m, 1) \o <<"M">>
AgeYMD(y, m, d, width) == AgeYM(y, m) \o Decimal(d, width) \o <<"D">>

Ages ==
    {AgeYM(y, m) : y \in 0..MaxYears, m \in 0..MaxMonths}
    \cup {AgeYMD(y, m, d, w) : y \in 0..MaxYears, m \in 0..MaxMonths, d \in 0..MaxDays,
                               w \in 1..2}
\* strings the pattern does not match
NoAges == {<<>>, <<"P", "2", "Y">>, <<"2", "Y", "3", "M">>, <<"P", "Y", "3", "M">>}

InitAge ==
    /\ pc = "convert_age"
    /\ caller = "age"
    /\ age_year \in {PyStr(s) : s \in Ages \cup NoAges}
    /\ age_month = PyNone
    /\ xmldoc = PyNone /\ args = PyNone
    /\ idx = 0 /\ results = <<>> /\ trace = <<>> /\ exc = ""
    /\ sents = <<>> /\ mluIdx = 0 /\ lastSent = <<>> /\ mluResults = <<>>
    /\ mlu = PyNone

\* lines 254-262 for the match m: None.group raises AttributeError
Converted(m) ==
    IF IsNone(m)
    THEN /\ pc' = "raised"
         /\ exc' = "AttributeError"
         /\ UNCHANGED age_month
    ELSE /\ pc' = "done"
         /\ age_month' = PyInt(Months(m))
         /\ UNCHANGED exc

\* lines 253-262
ConvertAge ==
    /\ pc = "convert_age"
    /\ Converted(Match(age_year.s))
    /\ UNCHANGED <<xmldoc, args, caller, idx, results, trace, sents, mluIdx, lastSent,
                   mluResults, mlu, age_year>>

NextAge == ConvertAge

SpecAge == InitAge /\ [][NextAge]_vars

----------------------------------------------------------------------------
(* The claims *)

IsPrefix(p, q) == Len(p) <= Len(q) /\ SubSeq(q, 1, Len(p)) = p

\* the passes of the utterance handled last that ran to their end
Completed(r) == r.exc = ""
Passes == {trace[k] : k \in 1..Len(trace)}

MatchesSpeaker(u) ==
    args.speaker = ALL \/ ("who" \in DOMAIN u.attrib /\ u.attrib.who = args.speaker)
TokensOf(u) == Outs(ResolveWords(u, FindAll(u, <<"w">>), args))
GroupsOf(us) == [k \in 1..Len(us) |-> TokensOf(us[k])]
RECURSIVE Concatenation(_)
Concatenation(groups) ==
    IF Len(groups) = 0 THEN <<>>
    ELSE groups[1] \o Concatenation([k \in 1..(Len(groups) - 1) |-> groups[k + 1]])

\* C1: the result of _get_words is, when sent and relation are both false,
\* the flat concatenation in document order of the tokens of the utterances
\* the speaker selector matches, and otherwise one group per matching
\* utterance in document order; an utterance that does not match gives no
\* token and no group.
C1_Shape ==
    pc = "done" =>
        results = IF ~args.sent /\ ~args.relation
                  THEN Concatenation(GroupsOf(SelectSeq(Utterances(xmldoc), MatchesSpeaker)))
                  ELSE GroupsOf(SelectSeq(Utterances(xmldoc), MatchesSpeaker))

\* a call with relation and without sent that returns one group, of three
\* tokens, for a document of three utterances of which one matches
C1_Witness ==
    /\ pc = "done" /\ ~args.sent /\ args.relation /\ args.speaker = CHI
    /\ Len(Utterances(xmldoc)) = 3
    /\ Len(results) = 1 /\ Len(results[1]) = 3

\* the text of a token behind its first "/"
RECURSIVE AfterSlash(_)
AfterSlash(chars) ==
    IF chars = <<>> THEN <<>>
    ELSE IF Head(chars) = "/" THEN Tail(chars)
    ELSE AfterSlash(Tail(chars))

Interjections ==
    {<<"c", "o">>, <<"o", "n">>, <<"u", "n", "k">>, <<"v", "v", "v">>,
     <<"N", "o", "n", "e">>}

\* the three rules, for the i-th group of sents
Kept(i) ==
    /\ ~(Len(sents[i]) = 1 /\ AfterSlash(sents[i][1].s) \in Interjections)
    /\ sents[i] # <<>>
    /\ (i > 1 => sents[i] # sents[i - 1])
KeptIndices == {i \in 1..Len(sents) : Kept(i)}
RECURSIVE SumOfLengths(_)
SumOfLengths(I) ==
    IF I = {} THEN 0
    ELSE LET i == CHOOSE j \in I : TRUE IN Len(sents[i]) + SumOfLengths(I \ {i})
\* the groups of sents at the indices I, in order
RECURSIVE GroupsAt(_, _)
GroupsAt(I, i) ==
    IF i > Len(sents) THEN <<>>
    ELSE (IF i \in I THEN <<sents[i]>> ELSE <<>>) \o GroupsAt(I, i + 1)

GroupMN == <<PyStr(<<"m", "/", "n">>)>>
GroupMNRV == <<PyStr(<<"m", "/", "n">>), PyStr(<<"r", "/", "v">>)>>
GroupHCo == <<PyStr(<<"h", "/", "c", "o">>)>>

\* C2: _getMLU retains exactly the groups that are not a single token tagged
\* co, on, unk, vvv or None, are not empty and differ from the group before
\* them in the raw list; it returns the number of tokens of the retained
\* groups divided by the number of retained groups, and 0 when none is
\* retained.  [[m/n],[m/n],[],[m/n,r/v]] gives 3/2 and [[h/co]] gives 0.
C2_MLU ==
    /\ caller = "MLU" => pc # "raised"
    /\ (pc = "done" /\ caller = "MLU") =>
        /\ mluResults = GroupsAt(KeptIndices, 1)
        /\ mlu = IF KeptIndices = {} THEN PyInt(0)
                 ELSE PyQuotient(SumOfLengths(KeptIndices), Cardinality(KeptIndices))
        /\ sents = <<GroupMN, GroupMN, <<>>, GroupMNRV>> => mlu = PyQuotient(3, 2)
        /\ sents = <<GroupHCo>> => mlu = PyInt(0)

\* the first example, returned
C2_Witness ==
    /\ pc = "done" /\ caller = "MLU"
    /\ sents = <<GroupMN, GroupMN, <<>>, GroupMNRV>>
    /\ mluResults = <<GroupMN, GroupMNRV>>
    /\ mlu = PyQuotient(3, 2)

\* C6: for P<years>Y<months>M with an optional <days>D, _convert_age returns
\* years * 12 + months, plus 1 exactly when the days are given and exceed
\* 15; missing days raise nothing.
C6_Age ==
    \A y \in 0..MaxYears :
        IsPrefix(AgeY(y), age_year.s) =>
            \A m \in 0..MaxMonths :
                IsPrefix(AgeYM(y, m), age_year.s) =>
                    /\ age_year.s = AgeYM(y, m) =>
                        /\ pc # "raised"
                        /\ pc = "done" => age_month = PyInt(y * 12 + m)
                    /\ \A d \in 0..MaxDays, w \in 1..2 :
                        age_year.s = AgeYMD(y, m, d, w) =>
                            /\ pc # "raised"
                            /\ pc = "done" =>
                                age_month =
                                    PyInt(y * 12 + m + (IF d > 15 THEN 1 ELSE 0))

\* P2Y3M20D has given 28
C6_Witness ==
    /\ pc = "done"
    /\ age_year = PyStr(<<"P", "2", "Y", "3", "M", "2", "0", "D">>)
    /\ age_month = PyInt(28)

\* the node found under the word node w itself by the path tags of children
Own(w, tags) == First(ChildSteps(<<w>>, tags))
HasNoAnnotation(w) == w.tag = "w" /\ w.kids = <<>>
SurfaceOf(w) == IF IsNone(w.text) THEN <<>> ELSE w.text.s

\* C3: with pos false, a word that carries no replacement and no morphology
\* yields exactly one token, its own surface text ('' when it has none),
\* stripped iff strip_space, whatever the other words of the utterance carry
\* and whatever stem, relation and replace are.
C3_PlainWord ==
    \A r \in Passes :
        (HasNoAnnotation(r.orig) /\ ~args.pos) =>
            /\ Completed(r)
            /\ r.out = <<PyStr(IF args.strip_space THEN Strip(SurfaceOf(r.orig))
                               ELSE SurfaceOf(r.orig))>>

\* C4: with replace true, the text the later steps use for a word that has a
\* replacement is the text of its own replacement: of its direct replacement
\* word when it has one, otherwise of its word-keyed replacement, whatever
\* the other words of the utterance carry.
C4_OwnReplacement ==
    \A r \in Passes :
        /\ (args.replace /\ ~IsNone(Own(r.orig, <<"replacement", "w">>))) =>
            r.surface = GetText(Own(r.orig, <<"replacement", "w">>), args.strip_space)
        /\ (args.replace /\ IsNone(Own(r.orig, <<"replacement">>))
              /\ Truthy(Own(r.orig, <<"wk">>))) =>
            r.surface = GetText(Own(r.orig, <<"wk">>), args.strip_space)

OwnSuffixStem(w) == Own(w, <<"mor", "mor-post", "mw", "stem">>)
HasSuffixStem(w) == ~IsNone(OwnSuffixStem(w)) /\ Truthy(OwnSuffixStem(w).text)
\* the text of a token: of the pair's first component when it is a pair
TokenText(token) == IF IsTuple(token) THEN token.a ELSE token

\* C5: with stem true, a word whose morphology has a nonempty suffix stem
\* yields exactly two consecutive tokens, the main token and then the token
\* built from the suffix stem, whatever pos, relation, replace and
\* strip_space are.
C5_TwoTokens ==
    \A r \in Passes :
        (args.stem /\ r.orig.tag = "w" /\ HasSuffixStem(r.orig) /\ Completed(r)) =>
            /\ Len(r.out) = 2
            /\ r.out[1] = r.word
            /\ IsStr(TokenText(r.out[2]))
            /\ IsPrefix(OwnSuffixStem(r.orig).text.s, TokenText(r.out[2]).s)

\* C7: token resolution never ends in an error because an optional
\* sub-structure is absent or empty.
C7_NeverRaises == pc # "raised" /\ \A r \in Passes : Completed(r)

Categories(r) == FindAll(r.src, <<"c">>)

\* C8: with pos true the main token gets "/" and the text of the first
\* category, or "/None" without a category; a pending suffix token gets "/"
\* and the text of the second category when there are exactly two, and
\* "/None" whenever there is no second category, the case of exactly one
\* category included.
C8_Tags ==
    \A r \in Passes :
        (args.pos /\ Completed(r)) =>
            /\ r.tagged.word =
                   IF Categories(r) = <<>> THEN PyAdd(r.stemmed.word, SlashNone)
                   ELSE PyAdd(r.stemmed.word, PyAdd(Slash, Categories(r)[1].text))
            /\ Truthy(r.stemmed.suffixStem) =>
                   /\ Len(Categories(r)) = 2 =>
                          r.tagged.suffixStem =
                              PyAdd(r.stemmed.suffixStem,
                                    PyAdd(Slash, Categories(r)[2].text))
                   /\ Len(Categories(r)) < 2 =>
                          r.tagged.suffixStem = PyAdd(r.stemmed.suffixStem, SlashNone)

MainDescriptors(r) == FindAll(r.src, <<"mor", "gra">>)

\* C9: with relation true, the main token of a word with one or more
\* relation descriptors is the pair of the plain word text and
\* 'index|head|relation' of the last descriptor: only the last descriptor's
\* triple is in the token.
C9_LastDescriptor ==
    \A r \in Passes :
        (args.relation /\ Completed(r) /\ MainDescriptors(r) # <<>>
           /\ IsStr(r.tagged.word)) =>
            /\ r.out[1] = PyTuple(r.tagged.word,
                                  Triple(MainDescriptors(r)[Len(MainDescriptors(r))]))
            /\ IsStr(r.out[1].a)

FindsNoSuffixStem(r) ==
    ~IsNone(r.src) /\ IsNone(Find(r.src, <<"mor", "mor-post", "mw", "stem">>))
PostDescriptor(r) == Find(r.src, <<"mor", "mor-post", "gra">>)

\* C10 as stated: with stem or relation, a word for which no suffix stem is
\* found has the pending suffix token '', which is emitted behind the main
\* token, so that the word gives two tokens.
C10_EmptySuffixEmitted ==
    \A r \in Passes :
        ((args.stem \/ args.relation) /\ FindsNoSuffixStem(r) /\ Completed(r)) =>
            /\ r.stemmed.suffixStem = EmptyStr
            /\ Len(r.out) = 2
            /\ TokenText(r.out[2]) = EmptyStr

\* C10, amended: with stem or relation, a word for which no suffix stem is
\* found has the pending suffix token ''; the empty string is not emitted,
\* and the word gives the main token alone, unless relation is true and the
\* post-morphology has a relation descriptor with index, head and relation:
\* then the pair ('', 'index|head|relation') is emitted behind the main token.
C10_EmptySuffixDropped ==
    \A r \in Passes :
        ((args.stem \/ args.relation) /\ FindsNoSuffixStem(r)) =>
            /\ r.stemmed.suffixStem = EmptyStr
            /\ Completed(r) =>
                r.out = IF args.relation /\ ~IsNone(PostDescriptor(r))
                           /\ HasTriple(PostDescriptor(r))
                        THEN <<r.word, PyTuple(EmptyStr, Triple(PostDescriptor(r)))>>
                        ELSE <<r.word>>

\* a word without morphology, resolved with stem: one token
C10_Witness ==
    \E r \in Passes :
        /\ args.stem /\ ~args.relation /\ FindsNoSuffixStem(r) /\ Completed(r)
        /\ r.stemmed.suffixStem = EmptyStr
        /\ Len(r.out) = 1

====
